---- MODULE Spec2Model ----
(***************************************************************************)
(* Duplicate detection and merge engine of clubs-data-processing:          *)
(* utils/normalizer.py (DataNormalizer), core/data_processor.py            *)
(* (DataProcessor, RecordMerger) and utils/formatter.py (DataMerger).      *)
(*                                                                         *)
(* A Python str is a sequence of one-character tokens.  ASCII characters   *)
(* are themselves ("1", "-", ".", " ", "n"); a CJK ideograph is written as *)
(* its pinyin token, named below with its code point.  A cell holding      *)
(* NaN/None (pd.isna) is the value NaN; a normalizer's None is None.       *)
(***************************************************************************)
EXTENDS Integers, Sequences, FiniteSets, TLC

(* ------------------------------ bounds ------------------------------- *)
MaxRawLen == 4      \* longest generated raw cell string
MaxRows == 3        \* most rows of a generated table
MaxValues == 3      \* longest generated list of values handed to a reducer
MaxGraphRows == 4   \* most rows of a table generated for the similarity graph

(* ---------------------------- characters ----------------------------- *)
Ji == "ji"          \* U+7EA7, the cohort marker
Ban == "ban"        \* U+73ED, class
Ben == "ben"        \* U+672C
Ke == "ke"          \* U+79D1
Yi == "yi"          \* U+4E00, one
Er == "er"          \* U+4E8C, two
San == "san"        \* U+4E09, three
Si == "si"          \* U+56DB, four
WuFive == "wu5"     \* U+4E94, five
Wu == "wu"          \* U+65E0, "none" token
Kong == "kong"      \* U+7A7A
Nian == "nian"      \* U+5E74, year
Zhang == "zhang"    \* U+5F20
Li == "li"          \* U+674E
Han == "han"        \* any other ideograph of U+4E00..U+9FA5 (e.g. U+673A)

CJK == {Ji, Ban, Ben, Ke, Yi, Er, San, Si, WuFive, Wu, Kong, Nian, Zhang, Li, Han}
Digits == {"0", "1", "2", "3", "4", "5", "6", "7", "8", "9"}
UpperLetters == <<"A", "B", "C", "D", "E", "F", "G", "H", "I", "J", "K", "L", "M",
                  "N", "O", "P", "Q", "R", "S", "T", "U", "V", "W", "X", "Y", "Z">>
LowerLetters == <<"a", "b", "c", "d", "e", "f", "g", "h", "i", "j", "k", "l", "m",
                  "n", "o", "p", "q", "r", "s", "t", "u", "v", "w", "x", "y", "z">>
Letters == {UpperLetters[i] : i \in 1..26} \cup {LowerLetters[i] : i \in 1..26}
Space == " "

IsDigit(c) == c \in Digits                          \* \d, str.isdigit
IsSpace(c) == c = Space     \* \s, str.strip, str.split (the one whitespace used)
IsWord(c) == c \in Digits \cup Letters \cup CJK \cup {"_"}   \* \w (Unicode)

NaN == <<"<NaN>">>      \* a missing cell: pd.isna(value)
None == <<"<None>">>    \* a normalizer's "no usable value"
isna(v) == v = NaN \/ v = None
notna(v) == ~isna(v)

(* ------------------------- str primitives ---------------------------- *)
LowerChar(c) ==
    IF \E i \in 1..26 : UpperLetters[i] = c
    THEN LowerLetters[CHOOSE i \in 1..26 : UpperLetters[i] = c]
    ELSE c

lower(s) == [i \in 1..Len(s) |-> LowerChar(s[i])]

RECURSIVE lstrip(_)
lstrip(s) == IF s # <<>> /\ IsSpace(Head(s)) THEN lstrip(Tail(s)) ELSE s

RECURSIVE rstrip(_)
rstrip(s) ==
    IF s # <<>> /\ IsSpace(s[Len(s)]) THEN rstrip(SubSeq(s, 1, Len(s) - 1)) ELSE s

strip(s) == rstrip(lstrip(s))

isdigit(s) == s # <<>> /\ \A i \in 1..Len(s) : IsDigit(s[i])

Contains(s, c) == \E i \in 1..Len(s) : s[i] = c

\* s.split(c)[0]: the text before the first c
SplitFirst(s, c) ==
    IF Contains(s, c)
    THEN SubSeq(s, 1, (CHOOSE i \in 1..Len(s) : s[i] = c /\ \A j \in 1..(i - 1) : s[j] # c) - 1)
    ELSE s

\* does pat occur in s at position i
MatchAt(s, i, pat) ==
    /\ i >= 1
    /\ i + Len(pat) - 1 <= Len(s)
    /\ \A k \in 1..Len(pat) : s[i + k - 1] = pat[k]

\* str.replace(pat, rep) and re.sub of a literal pattern: leftmost,
\* non-overlapping, scanning the original string
RECURSIVE ReplaceFrom(_, _, _, _)
ReplaceFrom(s, i, pat, rep) ==
    IF i > Len(s) THEN <<>>
    ELSE IF MatchAt(s, i, pat) THEN rep \o ReplaceFrom(s, i + Len(pat), pat, rep)
    ELSE <<s[i]>> \o ReplaceFrom(s, i + 1, pat, rep)

replace(s, pat, rep) == ReplaceFrom(s, 1, pat, rep)

\* ' '.join(s.split()): whitespace runs become one space, ends are trimmed
RECURSIVE CollapseFrom(_, _)
CollapseFrom(s, i) ==
    IF i > Len(s) THEN <<>>
    ELSE IF IsSpace(s[i]) /\ i > 1 /\ IsSpace(s[i - 1]) THEN CollapseFrom(s, i + 1)
    ELSE <<s[i]>> \o CollapseFrom(s, i + 1)

JoinSplit(s) == CollapseFrom(strip(s), 1)

(* ------------------------- DataNormalizer ---------------------------- *)
NanToken == <<"n", "a", "n">>
NoneToken == <<"n", "o", "n", "e">>

\* ['nan', 'none', U+65E0, ''] of normalize_contact / normalize_qq /
\* normalize_class_info
BroadEmptyTokens == {NanToken, NoneToken, <<Wu>>, <<>>}
\* normalize_name sharing the token list of the other normalizers
NameEmptyTokens_broad == BroadEmptyTokens

\* ['nan', 'none', ''] of normalize_name
NameEmptyTokens == {NanToken, NoneToken, <<>>}

\* the guard that opens every normalizer: pd.isna(value) or value == '' or
\* str(value).lower() in tokens
IsEmptyToken(value, tokens) ==
    isna(value) \/ value = <<>> \/ lower(value) \in tokens

\* "if '.' in s and s.replace('.', '').isdigit(): s = s.split('.')[0]"
DropDecimalPart(s) ==
    IF Contains(s, ".") /\ isdigit(replace(s, <<".">>, <<>>))
    THEN SplitFirst(s, ".")
    ELSE s

\* re.sub(r'[^\d]', '', s)
DigitsOnly(s) == SelectSeq(s, IsDigit)

normalize_contact(value) ==
    IF IsEmptyToken(value, BroadEmptyTokens) THEN None
    ELSE LET contact_str == DigitsOnly(DropDecimalPart(strip(value)))
         IN  IF Len(contact_str) = 11 /\ contact_str[1] = "1" THEN contact_str
             ELSE IF contact_str # <<>> THEN contact_str ELSE None

normalize_qq(value) ==
    IF IsEmptyToken(value, BroadEmptyTokens) THEN None
    ELSE LET qq_str == DigitsOnly(DropDecimalPart(strip(value)))
         IN  IF qq_str # <<>> /\ 5 <= Len(qq_str) /\ Len(qq_str) <= 11 /\ isdigit(qq_str)
             THEN qq_str
             ELSE IF qq_str # <<>> THEN qq_str ELSE None

\* the characters kept by re.sub: U+4E00..U+9FA5, a-z, A-Z and whitespace
IsNameChar(c) == c \in CJK \cup Letters \/ IsSpace(c)

normalize_name(value) ==
    IF IsEmptyToken(value, NameEmptyTokens) THEN None
    ELSE LET name_str == SelectSeq(JoinSplit(strip(value)), IsNameChar)
         IN  IF name_str # <<>> THEN name_str ELSE None

\* re.sub(r'\b(22|23|24|25)<ji>', r'20\1<ji>', s).  \b before the first "2"
\* holds at the start of the string or after a character that is not \w.
YearShorthandAt(s, i) ==
    /\ i + 2 <= Len(s)
    /\ s[i] = "2"
    /\ s[i + 1] \in {"2", "3", "4", "5"}
    /\ s[i + 2] = Ji
    /\ (i = 1 \/ ~IsWord(s[i - 1]))

RECURSIVE SubYearShorthandFrom(_, _)
SubYearShorthandFrom(s, i) ==
    IF i > Len(s) THEN <<>>
    ELSE IF YearShorthandAt(s, i)
         THEN <<"2", "0", s[i], s[i + 1], Ji>> \o SubYearShorthandFrom(s, i + 3)
         ELSE <<s[i]>> \o SubYearShorthandFrom(s, i + 1)

SubYearShorthand(s) == SubYearShorthandFrom(s, 1)

\* re.sub(r'20<ban>(\d)<ji>', r'202\1<ji>', s)
RECURSIVE SubYearMisplacedFrom(_, _)
SubYearMisplacedFrom(s, i) ==
    IF i > Len(s) THEN <<>>
    ELSE IF /\ i + 4 <= Len(s)
            /\ s[i] = "2" /\ s[i + 1] = "0" /\ s[i + 2] = Ban
            /\ IsDigit(s[i + 3]) /\ s[i + 4] = Ji
         THEN <<"2", "0", "2", s[i + 3], Ji>> \o SubYearMisplacedFrom(s, i + 5)
         ELSE <<s[i]>> \o SubYearMisplacedFrom(s, i + 1)

SubYearMisplaced(s) == SubYearMisplacedFrom(s, 1)

\* the ordinal rewritten whatever precedes it
SubOrdinalClass_any(s) ==
    LET s1 == replace(s, <<Yi, Ban>>, <<"1", Ban>>)
        s2 == replace(s1, <<Er, Ban>>, <<"2", Ban>>)
    IN  replace(s2, <<San, Ban>>, <<"3", Ban>>)

\* the three re.sub calls on <ben><ke>{<yi>,<er>,<san>}<ban>
SubOrdinalClass(s) ==
    LET s1 == replace(s, <<Ben, Ke, Yi, Ban>>, <<Ben, Ke, "1", Ban>>)
        s2 == replace(s1, <<Ben, Ke, Er, Ban>>, <<Ben, Ke, "2", Ban>>)
    IN  replace(s2, <<Ben, Ke, San, Ban>>, <<Ben, Ke, "3", Ban>>)

\* the three str.replace calls on <er>{<san>,<si>,<wu5>}<ji>
ReplaceChineseYear(s) ==
    LET s1 == replace(s, <<Er, San, Ji>>, <<"2", "0", "2", "3", Ji>>)
        s2 == replace(s1, <<Er, Si, Ji>>, <<"2", "0", "2", "4", Ji>>)
    IN  replace(s2, <<Er, WuFive, Ji>>, <<"2", "0", "2", "5", Ji>>)

normalize_class_info(value) ==
    IF IsEmptyToken(value, BroadEmptyTokens) THEN None
    ELSE ReplaceChineseYear(SubOrdinalClass(SubYearMisplaced(SubYearShorthand(strip(value)))))

NullToken == <<"n", "u", "l", "l">>

\* ['nan', 'none', 'null', U+65E0, U+7A7A, '/'] of is_empty_value
EmptyValueTokens == {NanToken, NoneToken, NullToken, <<Wu>>, <<Kong>>, <<"/">>}

is_empty_value(v) ==
    \/ isna(v)
    \/ strip(v) = <<>>
    \/ lower(v) \in EmptyValueTokens

(* --------------------------- YearFormatter --------------------------- *)
YearDigits == {"2", "3", "4", "5"}

\* ^(202[2-5]): s starts with a four-digit year 2022..2025
StartsWithYear(s) ==
    Len(s) >= 4 /\ s[1] = "2" /\ s[2] = "0" /\ s[3] = "2" /\ s[4] \in YearDigits

\* the rules (r'^22<ji>', '2022<ji>') .. (r'^25<ji>', '2025<ji>'), for the digit d
FixShorthand(s, d) ==
    IF Len(s) >= 3 /\ s[1] = "2" /\ s[2] = d /\ s[3] = Ji
    THEN <<"2", "0", "2", d, Ji>> \o SubSeq(s, 4, Len(s))
    ELSE s

\* the rules (r'^(202d)([^<ji>])', r'\1<ji>\2'), for the digit d
FixMissingMarker(s, d) ==
    IF StartsWithYear(s) /\ s[4] = d /\ Len(s) >= 5 /\ s[5] # Ji
    THEN SubSeq(s, 1, 4) \o <<Ji>> \o SubSeq(s, 5, Len(s))
    ELSE s

\* the rule (r'^(202[2-5])<nian>', r'\1<ji>')
FixNian(s) ==
    IF StartsWithYear(s) /\ Len(s) >= 5 /\ s[5] = Nian
    THEN SubSeq(s, 1, 4) \o <<Ji>> \o SubSeq(s, 6, Len(s))
    ELSE s

\* the rules (r'20<ban>d<ji>', '202d<ji>') for d = 5, 4, 3
FixMisplaced(s, d) == replace(s, <<"2", "0", Ban, d, Ji>>, <<"2", "0", "2", d, Ji>>)

\* the number of whitespace characters of s from position i on
RECURSIVE SpacesFrom(_, _)
SpacesFrom(s, i) == IF i <= Len(s) /\ IsSpace(s[i]) THEN 1 + SpacesFrom(s, i + 1) ELSE 0

\* the rule (r'^(202[2-5])\s+<ji>', r'\1<ji>')
FixSpace(s) ==
    LET n == SpacesFrom(s, 5)
    IN  IF StartsWithYear(s) /\ n >= 1 /\ Len(s) >= 5 + n /\ s[5 + n] = Ji
        THEN SubSeq(s, 1, 4) \o SubSeq(s, 5 + n, Len(s))
        ELSE s

\* YEAR_FIX_RULES applied in the order of the list
ApplyYearFixRules(s) ==
    LET r1 == FixShorthand(FixShorthand(FixShorthand(FixShorthand(s, "2"), "3"), "4"), "5")
        r2 == FixMissingMarker(FixMissingMarker(FixMissingMarker(FixMissingMarker(r1, "2"), "3"),
                                                "4"), "5")
        r3 == FixNian(r2)
        r4 == FixMisplaced(FixMisplaced(FixMisplaced(r3, "5"), "4"), "3")
    IN  FixSpace(r4)

\* re.sub(r'<ji>+', '<ji>', s)
RECURSIVE CollapseMarkers(_)
CollapseMarkers(s) ==
    IF Len(s) < 2 THEN s
    ELSE IF s[1] = Ji /\ s[2] = Ji THEN CollapseMarkers(Tail(s))
    ELSE <<s[1]>> \o CollapseMarkers(Tail(s))

fix_year_format(value) ==
    IF isna(value) \/ value = <<>> THEN value
    ELSE strip(CollapseMarkers(ApplyYearFixRules(strip(value))))

\* re.search(r'^20(22|23|24|25)<ji>', value)
validate_year_format(value) ==
    IF isna(value) \/ value = <<>> THEN FALSE
    ELSE StartsWithYear(value) /\ Len(value) >= 5 /\ value[5] = Ji

(* ------------------------------ state -------------------------------- *)
VARIABLES
    value,              \* the raw cell handed to a normalizer
    arg_values,         \* the list of raw cells handed to a DataMerger reducer
    arg_field_type,     \* the field_type argument of smart_merge_values
    op,                 \* the function applied to value or values, or "none"
    result,             \* what that function returned
    df,                 \* the caller's raw table
    df_clean,           \* clean_dataframe's copy with the derived columns
    key_fields,         \* the key_fields argument of find_duplicate_groups
    duplicate_groups,   \* the list find_duplicate_groups returned
    df_merged,          \* the records merge_duplicate_records returned
    stats,              \* the stats dict of merge_duplicates
    raised,             \* the exception that ended the run, or "none"
    pc                  \* the stage the run has reached

normVars == <<value, arg_values, arg_field_type, op, result>>
pipeVars == <<df, df_clean, key_fields, duplicate_groups, df_merged, stats, raised>>
vars == <<value, arg_values, arg_field_type, op, result,
          df, df_clean, key_fields, duplicate_groups, df_merged, stats, raised, pc>>

\* a DataFrame: the row ids in row order, the column names, the cells
EmptyFrame == [index |-> <<>>, columns |-> {}, row |-> <<>>]

\* the stats dict before step 4 has built it
NoStats ==
    [original_count |-> 0, cleaned_count |-> 0, merged_count |-> 0,
     duplicate_groups |-> 0, total_duplicates |-> 0, reduced_count |-> 0,
     compression_rate |-> 0]

(* -------------------- inputs of the normalizers ---------------------- *)
ContactAlphabet == {"1", "3", "0", "-", "."}
NameAlphabet == {"n", "a", "N", Wu, Zhang, "1", Space}
ClassAlphabet == {"2", "0", Ji, Ban, Ben, Ke, Yi, Han, Space}

\* the raw values the specification's scenarios name
Scenario_phone == <<"1", "3", "8", "-", "1", "2", "3", "4", "-", "5", "6", "7", "8", ".", "0">>
Scenario_phone_float == <<"1", "3", "8", "1", "2", "3", "4", "5", "6", "7", "8", ".", "0">>
Scenario_cohort == <<"2", "2", Ji, Han, Han, Han, "1", Ban>>
Scenario_cohort_suffix == <<Han, Han, Han, "2", "2", Ji>>
Scenario_full_year == <<"2", "0", "2", "2", Ji>>
Scenario_ordinal == <<Ben, Ke, Yi, Ban>>
Scenario_ordinal_two == <<Han, Ben, Ke, Er, Ban, Han, San, Ban>>
Scenario_ordinal_other == <<Han, Han, Han, Yi, Ban>>

ScenarioValues ==
    { NaN, NoneToken, <<"N", "O", "N", "E">>, <<"N", "o", "n", "e">>,
      <<Kong>>, <<"/">>, <<Space, Wu>>,
      Scenario_phone, Scenario_phone_float,
      Scenario_cohort, Scenario_cohort_suffix, Scenario_full_year,
      Scenario_ordinal, Scenario_ordinal_two, Scenario_ordinal_other }

\* v is a string of at most MaxRawLen characters of one alphabet, or one of
\* the scenario values
IsRawValue(v) ==
    \/ \E n \in 0..MaxRawLen :
          \/ v \in [1..n -> ContactAlphabet]
          \/ v \in [1..n -> NameAlphabet]
          \/ v \in [1..n -> ClassAlphabet]
    \/ v \in ScenarioValues

(* ------------- specification SpecNorm: one normalizer call ----------- *)
InitNorm ==
    /\ IsRawValue(value)
    /\ arg_values = <<>>
    /\ arg_field_type = "none"
    /\ op = "none"
    /\ result = None
    /\ df = EmptyFrame
    /\ df_clean = EmptyFrame
    /\ key_fields = <<>>
    /\ duplicate_groups = <<>>
    /\ df_merged = <<>>
    /\ stats = NoStats
    /\ raised = "none"
    /\ pc = "normalizer"

Call_normalize_contact ==
    /\ pc = "normalizer" /\ op = "none"
    /\ op' = "normalize_contact"
    /\ result' = normalize_contact(value)
    /\ UNCHANGED <<value, arg_values, arg_field_type, pc, pipeVars>>

Call_normalize_qq ==
    /\ pc = "normalizer" /\ op = "none"
    /\ op' = "normalize_qq"
    /\ result' = normalize_qq(value)
    /\ UNCHANGED <<value, arg_values, arg_field_type, pc, pipeVars>>

Call_normalize_name ==
    /\ pc = "normalizer" /\ op = "none"
    /\ op' = "normalize_name"
    /\ result' = normalize_name(value)
    /\ UNCHANGED <<value, arg_values, arg_field_type, pc, pipeVars>>

Call_normalize_class_info ==
    /\ pc = "normalizer" /\ op = "none"
    /\ op' = "normalize_class_info"
    /\ result' = normalize_class_info(value)
    /\ UNCHANGED <<value, arg_values, arg_field_type, pc, pipeVars>>

NextNorm ==
    \/ Call_normalize_contact
    \/ Call_normalize_qq
    \/ Call_normalize_name
    \/ Call_normalize_class_info

SpecNorm == InitNorm /\ [][NextNorm]_vars

(* ---------- specification SpecYear: one YearFormatter call ---------- *)
\* v is missing, or a prefix followed by at most MaxRawLen characters
IsYearLabel(v) ==
    LET YearPrefixes == { <<>>, <<"2">>, <<"2", "2">>, <<"2", "0">>,
                          <<"2", "0", "2", "2">>, <<"2", "0", "2", "3">> }
        YearAlphabet == {Ji, Nian, Space, Ban, "5", Han}
    IN  \/ v = NaN
        \/ \E prefix \in YearPrefixes, n \in 0..MaxRawLen :
               \E tail \in [1..n -> YearAlphabet] : v = prefix \o tail

InitYear ==
    /\ IsYearLabel(value)
    /\ arg_values = <<>>
    /\ arg_field_type = "none"
    /\ op = "none"
    /\ result = None
    /\ df = EmptyFrame
    /\ df_clean = EmptyFrame
    /\ key_fields = <<>>
    /\ duplicate_groups = <<>>
    /\ df_merged = <<>>
    /\ stats = NoStats
    /\ raised = "none"
    /\ pc = "year"

Call_fix_year_format ==
    /\ pc = "year" /\ op = "none"
    /\ op' = "fix_year_format"
    /\ result' = fix_year_format(value)
    /\ UNCHANGED <<value, arg_values, arg_field_type, pc, pipeVars>>

Call_validate_year_format ==
    /\ pc = "year" /\ op = "none"
    /\ op' = "validate_year_format"
    /\ result' = IF validate_year_format(value) THEN <<"True">> ELSE <<"False">>
    /\ UNCHANGED <<value, arg_values, arg_field_type, pc, pipeVars>>

NextYear ==
    \/ Call_fix_year_format
    \/ Call_validate_year_format

SpecYear == InitYear /\ [][NextYear]_vars

(* ----------------------------- DataFrame ---------------------------- *)
\* column names: the raw columns xingming, QQ hao, lianxi fangshi,
\* nianji-zhuanye-cengci-banji, jiaru shetuan and their "_biaozhun" columns
NameCol == "name"
QQCol == "qq"
ContactCol == "contact"
ClassCol == "class"
ClubCol == "club"
NameStd == "name_std"
QQStd == "qq_std"
ContactStd == "contact_std"
ClassStd == "class_std"

Range(seq) == {seq[i] : i \in 1..Len(seq)}

\* df[column] = cells: a column stored in a frame, cells given per row id
WithColumn(frame, column, cells) ==
    [index |-> frame.index,
     columns |-> frame.columns \cup {column},
     row |-> [i \in DOMAIN frame.row |->
                 [c \in DOMAIN frame.row[i] \cup {column} |->
                     IF c = column THEN cells[i] ELSE frame.row[i][c]]]]

\* the default index of a table of n rows
RangeIndex(n) == [i \in 1..n |-> i - 1]

(* --------------------------- DataProcessor --------------------------- *)
clean_dataframe(frame) ==
    LET rows == DOMAIN frame.row
        d1 == IF ContactCol \in frame.columns
              THEN WithColumn(frame, ContactStd,
                       [i \in rows |-> normalize_contact(frame.row[i][ContactCol])])
              ELSE frame
        d2 == IF QQCol \in d1.columns
              THEN WithColumn(d1, QQStd, [i \in rows |-> normalize_qq(frame.row[i][QQCol])])
              ELSE d1
        d3 == IF NameCol \in d2.columns
              THEN WithColumn(d2, NameStd, [i \in rows |-> normalize_name(frame.row[i][NameCol])])
              ELSE d2
    IN  IF ClassCol \in d3.columns
        THEN WithColumn(d3, ClassStd,
                 [i \in rows |-> normalize_class_info(frame.row[i][ClassCol])])
        ELSE d3

\* list(a_set_of_row_ids): CPython enumerates a set by the slots of its
\* hash table, and an int is its own hash: the table has 8 slots while the
\* set has fewer than 5 members and 32 slots from the 5th member on, and a
\* row id sits in the slot id mod table size (for members that share no
\* slot, and fewer than 20 of them). Row ids below 8 come out ascending.
list_of_set(S) ==
    LET slots == IF Cardinality(S) < 5 THEN 8 ELSE 32
        before(x, y) == x % slots < y % slots \/ (x % slots = y % slots /\ x < y)
    IN  [k \in 1..Cardinality(S) |->
            CHOOSE x \in S : Cardinality({y \in S : before(y, x)}) = k - 1]

\* connections[node] of the defaultdict(set)
Neighbors(connections, node) ==
    IF node \in DOMAIN connections THEN connections[node] ELSE {}

\* the pair loop adding only connections[indices[i]].add(indices[j])
ConnectGroup_one_way(connections, indices) ==
    LET sources == {indices[i] : i \in 1..(Len(indices) - 1)}
        linked(n) == {indices[j] : j \in {k \in 1..Len(indices) :
                            \E i \in 1..(k - 1) : indices[i] = n}}
    IN  [n \in DOMAIN connections \cup sources |->
            IF n \in DOMAIN connections THEN connections[n] \cup linked(n) ELSE linked(n)]

\* the pair loop linking only the neighbouring positions i, i + 1
ConnectGroup_chain(connections, indices) ==
    LET linked(n) == {indices[j] : j \in {k \in 1..Len(indices) :
                            \E i \in {k - 1, k + 1} \cap (1..Len(indices)) : indices[i] = n}}
    IN  [n \in DOMAIN connections \cup Range(indices) |->
            Neighbors(connections, n) \cup linked(n)]

\* the double loop over one value group: every pair of positions i < j of
\* indices is connected both ways
ConnectGroup(connections, indices) ==
    LET linked(n) == {indices[j] : j \in {k \in 1..Len(indices) :
                            \E i \in 1..Len(indices) : i # k /\ indices[i] = n}}
    IN  [n \in DOMAIN connections \cup Range(indices) |->
            Neighbors(connections, n) \cup linked(n)]

\* df.groupby(field): the keys (missing values are dropped by groupby)
GroupKeys(frame, field) ==
    {frame.row[i][field] : i \in Range(frame.index)} \ {NaN, None}

\* group.index.tolist(): the row ids holding key, in row order
GroupIndices(frame, field, key) ==
    SelectSeq(frame.index, LAMBDA i : frame.row[i][field] = key)

\* the group loop without the "key != ''" test
RECURSIVE ConnectKeys_no_empty_test(_, _, _, _)
ConnectKeys_no_empty_test(connections, frame, field, keys) ==
    IF keys = {} THEN connections
    ELSE LET key == CHOOSE k \in keys : TRUE
             indices == GroupIndices(frame, field, key)
             next == IF notna(key) /\ Len(indices) > 1
                     THEN ConnectGroup(connections, indices)
                     ELSE connections
         IN  ConnectKeys_no_empty_test(next, frame, field, keys \ {key})

RECURSIVE ConnectKeys(_, _, _, _)
ConnectKeys(connections, frame, field, keys) ==
    IF keys = {} THEN connections
    ELSE LET key == CHOOSE k \in keys : TRUE
             indices == GroupIndices(frame, field, key)
             next == IF notna(key) /\ key # <<>> /\ Len(indices) > 1
                     THEN ConnectGroup(connections, indices)
                     ELSE connections
         IN  ConnectKeys(next, frame, field, keys \ {key})

\* the field loop leaving after the first field that is a column
RECURSIVE BuildConnections_first_field(_, _, _, _)
BuildConnections_first_field(connections, frame, fields, k) ==
    IF k > Len(fields) THEN connections
    ELSE IF fields[k] \notin frame.columns
         THEN BuildConnections_first_field(connections, frame, fields, k + 1)
         ELSE ConnectKeys(connections, frame, fields[k], GroupKeys(frame, fields[k]))

\* "for field in key_fields": fields that are no column are skipped
RECURSIVE BuildConnections(_, _, _, _)
BuildConnections(connections, frame, fields, k) ==
    IF k > Len(fields) THEN connections
    ELSE IF fields[k] \notin frame.columns
         THEN BuildConnections(connections, frame, fields, k + 1)
         ELSE BuildConnections(
                  ConnectKeys(connections, frame, fields[k], GroupKeys(frame, fields[k])),
                  frame, fields, k + 1)

\* a traversal that takes the neighbours of the start node and goes no deeper
dfs_shallow(node, st, connections) ==
    IF node \in st.visited THEN st
    ELSE LET found == {node} \cup (Neighbors(connections, node) \ st.visited)
         IN  [visited |-> st.visited \cup found,
              added |-> st.added \o list_of_set(found),
              current_group |-> st.current_group \cup found]

\* dfs(node, current_group): st carries visited, current_group and added,
\* the nodes in the order of the visited.add(node) calls
RECURSIVE dfs(_, _, _)
RECURSIVE dfs_each(_, _, _)
dfs(node, st, connections) ==
    IF node \in st.visited THEN st
    ELSE dfs_each(list_of_set(Neighbors(connections, node)),
                  [visited |-> st.visited \cup {node},
                   added |-> Append(st.added, node),
                   current_group |-> st.current_group \cup {node}],
                  connections)

dfs_each(neighbors, st, connections) ==
    IF neighbors = <<>> THEN st
    ELSE dfs_each(Tail(neighbors), dfs(Head(neighbors), st, connections), connections)

\* the row loop with a visited set that every traversal starts afresh
RECURSIVE CollectGroups_fresh_visited(_, _, _, _)
CollectGroups_fresh_visited(index, k, acc, connections) ==
    IF k > Len(index) THEN acc
    ELSE LET idx == index[k]
         IN  IF idx \in DOMAIN connections
             THEN LET st == dfs(idx, [visited |-> {}, added |-> acc.added,
                                      current_group |-> {}], connections)
                  IN  CollectGroups_fresh_visited(index, k + 1,
                          [visited |-> st.visited,
                           added |-> st.added,
                           duplicate_groups |->
                               IF Cardinality(st.current_group) > 1
                               THEN Append(acc.duplicate_groups, st.current_group)
                               ELSE acc.duplicate_groups],
                          connections)
             ELSE CollectGroups_fresh_visited(index, k + 1, acc, connections)

\* the row loop without its "idx in connections" test
RECURSIVE CollectGroups_every_row(_, _, _, _)
CollectGroups_every_row(index, k, acc, connections) ==
    IF k > Len(index) THEN acc
    ELSE LET idx == index[k]
         IN  IF idx \notin acc.visited
             THEN LET st == dfs(idx, [visited |-> acc.visited, added |-> acc.added,
                                      current_group |-> {}], connections)
                  IN  CollectGroups_every_row(index, k + 1,
                          [visited |-> st.visited,
                           added |-> st.added,
                           duplicate_groups |->
                               IF Cardinality(st.current_group) > 1
                               THEN Append(acc.duplicate_groups, st.current_group)
                               ELSE acc.duplicate_groups],
                          connections)
             ELSE CollectGroups_every_row(index, k + 1, acc, connections)

\* "for idx in df.index": acc carries visited, duplicate_groups and added
RECURSIVE CollectGroups(_, _, _, _)
CollectGroups(index, k, acc, connections) ==
    IF k > Len(index) THEN acc
    ELSE LET idx == index[k]
         IN  IF idx \notin acc.visited /\ idx \in DOMAIN connections
             THEN LET st == dfs(idx, [visited |-> acc.visited, added |-> acc.added,
                                      current_group |-> {}], connections)
                  IN  CollectGroups(index, k + 1,
                          [visited |-> st.visited,
                           added |-> st.added,
                           duplicate_groups |->
                               IF Cardinality(st.current_group) > 1
                               THEN Append(acc.duplicate_groups, st.current_group)
                               ELSE acc.duplicate_groups],
                          connections)
             ELSE CollectGroups(index, k + 1, acc, connections)

\* the locals of find_duplicate_groups when it returns: connections,
\* visited, duplicate_groups and the order of the visited.add calls
Traversal(frame, fields) ==
    LET connections == BuildConnections(<<>>, frame, fields, 1)
        acc == CollectGroups(frame.index, 1,
                             [visited |-> {}, added |-> <<>>, duplicate_groups |-> <<>>],
                             connections)
    IN  [connections |-> connections,
         visited |-> acc.visited,
         added |-> acc.added,
         duplicate_groups |-> acc.duplicate_groups]

find_duplicate_groups(frame, fields) == Traversal(frame, fields).duplicate_groups

DefaultKeyFields == <<NameStd, QQStd, ContactStd>>

(* ----------------------------- DataMerger --------------------------- *)
\* s.split(','): the pieces between the separators
RECURSIVE split(_, _)
split(s, sep) ==
    IF ~Contains(s, sep) THEN <<s>>
    ELSE LET first == SplitFirst(s, sep)
         IN  <<first>> \o split(SubSeq(s, Len(first) + 2, Len(s)), sep)

\* the order-preserving de-duplication loop
RECURSIVE Unique(_, _)
Unique(items, seen) ==
    IF items = <<>> THEN seen
    ELSE IF \E i \in 1..Len(seen) : seen[i] = Head(items)
         THEN Unique(Tail(items), seen)
         ELSE Unique(Tail(items), Append(seen, Head(items)))

RECURSIVE join(_, _)
join(sep, items) ==
    IF items = <<>> THEN <<>>
    ELSE IF Len(items) = 1 THEN items[1]
    ELSE items[1] \o sep \o join(sep, Tail(items))

RECURSIVE AllClubs(_)
AllClubs(club_list) ==
    IF club_list = <<>> THEN <<>>
    ELSE LET clubs == Head(club_list)
             club_names == IF notna(clubs) /\ clubs # <<>>
                           THEN LET parts == split(clubs, ",")
                                IN  [i \in 1..Len(parts) |-> strip(parts[i])]
                           ELSE <<>>
         IN  club_names \o AllClubs(Tail(club_list))

\* the tokens joined without the de-duplication loop
merge_club_info_no_dedup(club_list) ==
    IF club_list = <<>> THEN <<>>
    ELSE join(<<",", Space>>, SelectSeq(AllClubs(club_list), LAMBDA club : club # <<>>))

merge_club_info(club_list) ==
    IF club_list = <<>> THEN <<>>
    ELSE join(<<",", Space>>,
              Unique(SelectSeq(AllClubs(club_list), LAMBDA club : club # <<>>), <<>>))

\* every field type taking the general branch
NormalizedValues_raw(values, field_type) ==
    LET kept == SelectSeq(values, LAMBDA v : notna(v) /\ strip(v) # <<>>)
    IN  [i \in 1..Len(kept) |-> strip(kept[i])]

\* normalized_values of smart_merge_values
NormalizedValues(values, field_type) ==
    IF field_type = "contact" THEN [i \in 1..Len(values) |-> normalize_contact(values[i])]
    ELSE IF field_type = "qq" THEN [i \in 1..Len(values) |-> normalize_qq(values[i])]
    ELSE IF field_type = "name" THEN [i \in 1..Len(values) |-> normalize_name(values[i])]
    ELSE IF field_type = "class" THEN [i \in 1..Len(values) |-> normalize_class_info(values[i])]
    ELSE LET kept == SelectSeq(values, LAMBDA v : notna(v) /\ strip(v) # <<>>)
         IN  [i \in 1..Len(kept) |-> strip(kept[i])]

\* the test that makes a phone or QQ candidate the best value
IsStandard(field_type, v) ==
    \/ field_type = "contact" /\ Len(v) = 11
    \/ field_type = "qq" /\ 5 <= Len(v) /\ Len(v) <= 11

\* the loop without its break: the last candidate that passes the test
BestValue_last_standard(unique_values, field_type) ==
    IF \E i \in 1..Len(unique_values) : IsStandard(field_type, unique_values[i])
    THEN unique_values[CHOOSE i \in 1..Len(unique_values) :
             /\ IsStandard(field_type, unique_values[i])
             /\ \A j \in (i + 1)..Len(unique_values) : ~IsStandard(field_type, unique_values[j])]
    ELSE unique_values[1]

\* best_value: the first candidate that passes the test, else the first
BestValue(unique_values, field_type) ==
    IF \E i \in 1..Len(unique_values) : IsStandard(field_type, unique_values[i])
    THEN unique_values[CHOOSE i \in 1..Len(unique_values) :
             /\ IsStandard(field_type, unique_values[i])
             /\ \A j \in 1..(i - 1) : ~IsStandard(field_type, unique_values[j])]
    ELSE unique_values[1]

\* a maximum that keeps the last value of the greatest length
Longest_last_of_ties(unique_values) ==
    unique_values[CHOOSE i \in 1..Len(unique_values) :
        /\ \A j \in 1..Len(unique_values) : Len(unique_values[j]) <= Len(unique_values[i])
        /\ \A j \in (i + 1)..Len(unique_values) : Len(unique_values[j]) < Len(unique_values[i])]

\* max(unique_values, key=len): the first value of the greatest length
Longest(unique_values) ==
    unique_values[CHOOSE i \in 1..Len(unique_values) :
        /\ \A j \in 1..Len(unique_values) : Len(unique_values[j]) <= Len(unique_values[i])
        /\ \A j \in 1..(i - 1) : Len(unique_values[j]) < Len(unique_values[i])]

\* "return None" where no candidate remains
smart_merge_values_null(values, field_type) ==
    IF values = <<>> THEN <<>>
    ELSE LET valid_values == SelectSeq(NormalizedValues(values, field_type),
                                       LAMBDA v : v # None /\ v # <<>>)
             unique_values == Unique(valid_values, <<>>)
         IN  IF valid_values = <<>> THEN None
             ELSE IF Len(unique_values) = 1 THEN unique_values[1]
             ELSE IF field_type \in {"contact", "qq"}
                  THEN BestValue(unique_values, field_type)
             ELSE IF field_type = "class" THEN Longest(unique_values)
             ELSE unique_values[1]

smart_merge_values(values, field_type) ==
    IF values = <<>> THEN <<>>
    ELSE LET valid_values == SelectSeq(NormalizedValues(values, field_type),
                                       LAMBDA v : v # None /\ v # <<>>)
             unique_values == Unique(valid_values, <<>>)
         IN  IF valid_values = <<>> THEN <<>>
             ELSE IF Len(unique_values) = 1 THEN unique_values[1]
             ELSE IF field_type \in {"contact", "qq"}
                  THEN BestValue(unique_values, field_type)
             ELSE IF field_type = "class" THEN Longest(unique_values)
             ELSE unique_values[1]

(* --------------------- inputs of the reducers ------------------------ *)
Phone_a == <<"1", "3", "8", "0", "0", "0", "0", "0", "0", "0", "0">>
Phone_b == <<"1", "3", "9", "0", "0", "0", "0", "0", "0", "0", "0">>

ClubPool ==
    { NaN, <<>>, <<Space>>, <<Han>>, <<Li, ",", Space, Han>>,
      <<Space, Han, ",", ",", Li, Space>>, <<Wu>> }
ContactPool ==
    { NaN, <<Wu>>, <<"1", "-">>, <<"1">>, Phone_a, Phone_b, Phone_a \o <<".", "0">> }
ClassPool ==
    { NaN, <<Wu>>, <<"2", "2", Ji>>, <<"2", "0", "2", "2", Ji>>, <<Han, Ban>>, <<Li, Ban>>,
      <<Han, Han, Han, Han, Ban>>, <<Han, Han, Han, Han, Han, Ban>> }
GeneralPool ==
    { NaN, <<Space>>, <<Wu>>, <<Kong>>, <<"/">>, NanToken, <<"N", "u", "l", "l">>,
      <<Space, Han, Space>>, <<Li>> }

\* l is a list of at most MaxValues cells of one pool
IsValueList(l) ==
    \E n \in 0..MaxValues :
        \/ l \in [1..n -> ClubPool]
        \/ l \in [1..n -> ContactPool]
        \/ l \in [1..n -> ClassPool]
        \/ l \in [1..n -> GeneralPool]

FieldTypes == {"contact", "qq", "name", "class", "general"}

(* ------------- specification SpecMerge: one reducer call ------------- *)
InitMerge ==
    /\ IsValueList(arg_values)
    /\ arg_field_type = "none"
    /\ value = NaN
    /\ op = "none"
    /\ result = None
    /\ df = EmptyFrame
    /\ df_clean = EmptyFrame
    /\ key_fields = <<>>
    /\ duplicate_groups = <<>>
    /\ df_merged = <<>>
    /\ stats = NoStats
    /\ raised = "none"
    /\ pc = "reducer"

Call_merge_club_info ==
    /\ pc = "reducer" /\ op = "none"
    /\ op' = "merge_club_info"
    /\ result' = merge_club_info(arg_values)
    /\ UNCHANGED <<value, arg_values, arg_field_type, pc, pipeVars>>

Call_smart_merge_values ==
    /\ pc = "reducer" /\ op = "none"
    /\ \E ft \in FieldTypes :
          /\ arg_field_type' = ft
          /\ result' = smart_merge_values(arg_values, ft)
    /\ op' = "smart_merge_values"
    /\ UNCHANGED <<value, arg_values, pc, pipeVars>>

NextMerge ==
    \/ Call_merge_club_info
    \/ Call_smart_merge_values

SpecMerge == InitMerge /\ [][NextMerge]_vars

(* ---------------------------- RecordMerger --------------------------- *)
\* the if/elif chain that picks the reducer of a field
MergeField(field, values) ==
    IF field = ClubCol THEN merge_club_info(values)
    ELSE IF field = ContactCol THEN smart_merge_values(values, "contact")
    ELSE IF field = QQCol THEN smart_merge_values(values, "qq")
    ELSE IF field = NameCol THEN smart_merge_values(values, "name")
    ELSE IF field = ClassCol THEN smart_merge_values(values, "class")
    ELSE smart_merge_values(values, "general")

\* merged_record of one group: group_rows = df.loc[list(group_indices)]
MergedRecord(frame, group_indices, merge_fields) ==
    LET rows == list_of_set(group_indices)
    IN  [field \in Range(merge_fields) \cap frame.columns |->
            MergeField(field, [k \in 1..Len(rows) |-> frame.row[rows[k]][field]])]

\* the untouched row put through the reducers like a group of one
UntouchedRecord_reduced(frame, idx, merge_fields) ==
    [field \in Range(merge_fields) \cap frame.columns |->
        MergeField(field, <<frame.row[idx][field]>>)]

\* the record of a row that no group processed
UntouchedRecord(frame, idx, merge_fields) ==
    [field \in Range(merge_fields) \cap frame.columns |-> frame.row[idx][field]]

merge_duplicate_records(frame, groups, merge_fields) ==
    LET processed_indices == UNION Range(groups)
        rest == SelectSeq(frame.index, LAMBDA idx : idx \notin processed_indices)
    IN  [g \in 1..Len(groups) |-> MergedRecord(frame, groups[g], merge_fields)]
            \o [k \in 1..Len(rest) |-> UntouchedRecord(frame, rest[k], merge_fields)]

\* pd.DataFrame(merged_records): the records under a fresh RangeIndex
MergedFrame(merged) ==
    [index |-> RangeIndex(Len(merged)),
     columns |-> IF merged = <<>> THEN {} ELSE DOMAIN merged[1],
     row |-> [i \in 0..(Len(merged) - 1) |-> merged[i + 1]]]

(* --------------------- DuplicateMerger pipeline ---------------------- *)
CollegeCol == "college"
RawClubCol == "club_raw"        \* the column "shetuan" that step 3 renames

\* merge_fields of merge_duplicates: the nine fields, with the club field
\* put first when the table has a club column
MergeFieldsOf(frame) ==
    LET base == <<NameCol, QQCol, ContactCol, ClassCol, CollegeCol,
                  "gender", "age", "hometown", "political">>
    IN  IF RawClubCol \in frame.columns \/ ClubCol \in frame.columns
        THEN <<ClubCol>> \o base
        ELSE base

\* df_clean['club'] = df_clean['club_raw'] when the raw club column exists
WithClubColumn(frame) ==
    IF RawClubCol \in frame.columns
    THEN WithColumn(frame, ClubCol, [i \in DOMAIN frame.row |-> frame.row[i][RawClubCol]])
    ELSE frame

\* df.copy() handing back df's own cells instead of new ones
copy_shares_cells_with_df == TRUE

\* df_clean = df.copy(): the copy is deep (the default), so it shares no
\* cell with df
copy_shares_cells == FALSE

\* the caller's table after columns were assigned to the table "written"
\* that clean_dataframe returned
CallerTable(caller, written) == IF copy_shares_cells THEN written ELSE caller

\* the "_biaozhun" columns that step 1 prints the valid counts of
PrintedColumns == {NameStd, ContactStd, QQStd}

\* total_duplicates = sum(len(group) for group in duplicate_groups)
RECURSIVE TotalDuplicates(_)
TotalDuplicates(groups) ==
    IF groups = <<>> THEN 0
    ELSE Cardinality(Head(groups)) + TotalDuplicates(Tail(groups))

\* f"{reduced / cleaned * 100:.1f}%", in tenths of a percent (no value
\* falls on a rounding tie for a table of fewer than 16 rows)
CompressionRate(reduced, cleaned) == (2000 * reduced + cleaned) \div (2 * cleaned)

\* reduced_count computed as the number of records the groups absorbed
MakeStats_reduced_is_total(frame, frame_clean, merged, groups) ==
    [original_count |-> Len(frame.index),
     cleaned_count |-> Len(frame_clean.index),
     merged_count |-> Len(merged),
     duplicate_groups |-> Len(groups),
     total_duplicates |-> TotalDuplicates(groups),
     reduced_count |-> TotalDuplicates(groups),
     compression_rate |-> CompressionRate(TotalDuplicates(groups), Len(frame_clean.index))]

\* the stats dict of step 4
MakeStats(frame, frame_clean, merged, groups) ==
    [original_count |-> Len(frame.index),
     cleaned_count |-> Len(frame_clean.index),
     merged_count |-> Len(merged),
     duplicate_groups |-> Len(groups),
     total_duplicates |-> TotalDuplicates(groups),
     reduced_count |-> Len(frame_clean.index) - Len(merged),
     compression_rate |-> CompressionRate(Len(frame_clean.index) - Len(merged),
                                          Len(frame_clean.index))]

(* ------------------------ inputs of the pipeline --------------------- *)
Blank == <<Space>>
NameCells == {NaN, <<Zhang>>, <<Li>>}
ContactCells == {NaN, <<"1">>, <<"1", "-">>}
QQCell == <<"5">>
ClassCell == <<"2", "2", Ji>>
ClubCells == {NaN, <<Han>>, <<Space, Han, ",", Zhang, ",", Han>>}
CollegeCells == {NaN, <<Space, Han, Space>>, Blank}

KeyRow(n, c, q, k) ==
    [r \in {NameCol, ContactCol, QQCol, ClassCol} |->
        IF r = NameCol THEN n ELSE IF r = ContactCol THEN c ELSE IF r = QQCol THEN q ELSE k]

\* rows of the four key columns: every name with and without the phone
\* "1-", the phone "1" (the same number written differently) alone, and rows
\* that carry a QQ number or a cohort label
RowPool ==
    {KeyRow(n, c, NaN, Blank) : n \in NameCells, c \in {NaN, <<"1", "-">>}}
        \cup {KeyRow(NaN, <<"1">>, NaN, Blank)}
        \cup {KeyRow(n, NaN, QQCell, Blank) : n \in {NaN, <<Li>>}}
        \cup {KeyRow(n, NaN, NaN, ClassCell) : n \in {NaN, <<Zhang>>}}

\* a table of at most MaxRows rows of the pool
IsPoolTable(t) ==
    \E n \in 0..MaxRows :
        \E rows \in [0..(n - 1) -> RowPool] :
            t = [index |-> RangeIndex(n),
                 columns |-> {NameCol, ContactCol, QQCol, ClassCol},
                 row |-> rows]

\* a one-row table that also carries the club and college columns
IsRichTable(t) ==
    \E n \in NameCells, c \in ContactCells, q \in {NaN, QQCell},
       k \in {Blank, ClassCell}, b \in ClubCells, g \in CollegeCells :
        t = [index |-> RangeIndex(1),
             columns |-> {NameCol, ContactCol, QQCol, ClassCol, ClubCol, CollegeCol},
             row |-> [i \in {0} |->
                        [r \in {NameCol, ContactCol, QQCol, ClassCol, ClubCol, CollegeCol} |->
                            IF r = NameCol THEN n ELSE IF r = ContactCol THEN c
                            ELSE IF r = QQCol THEN q ELSE IF r = ClassCol THEN k
                            ELSE IF r = ClubCol THEN b ELSE g]]]

\* the column sets of the tables that lack a column or carry the raw club
\* column
SparseColumnChoices ==
    { {NameCol, ContactCol}, {NameCol, QQCol}, {ContactCol, QQCol, ClassCol},
      {NameCol, ContactCol, QQCol, RawClubCol} }

SparseClubCells == {NaN, <<Li>>, <<Han, ",", Space, Li>>}

\* a table of at most MaxRows rows over one of the sparse column sets: the
\* rows share their name and differ in their club cell
IsSparseTable(t) ==
    \E cols \in SparseColumnChoices :
        \E n \in 0..MaxRows :
            \E clubs \in [0..(n - 1) -> IF RawClubCol \in cols THEN SparseClubCells ELSE {NaN}] :
                t = [index |-> RangeIndex(n),
                     columns |-> cols,
                     row |-> [i \in 0..(n - 1) |->
                                [r \in cols |->
                                    IF r = NameCol THEN <<Zhang>>
                                    ELSE IF r = RawClubCol THEN clubs[i]
                                    ELSE NaN]]]

KeyFieldChoices ==
    {DefaultKeyFields, <<NameStd>>, <<ClassStd, "college_std", ContactStd>>}

(* --------------- specification Spec: one pipeline run ---------------- *)
Init ==
    /\ IsPoolTable(df) \/ IsRichTable(df) \/ IsSparseTable(df)
    /\ df_clean = EmptyFrame
    /\ key_fields = <<>>
    /\ duplicate_groups = <<>>
    /\ df_merged = <<>>
    /\ stats = NoStats
    /\ raised = "none"
    /\ pc = "raw"
    /\ value = NaN
    /\ arg_values = <<>>
    /\ arg_field_type = "none"
    /\ op = "none"
    /\ result = None

\* step 1 of merge_duplicates: clean_dataframe, then the prints that index
\* the three "_biaozhun" columns (a column that is not there is a KeyError)
Call_clean_dataframe ==
    /\ pc = "raw"
    /\ df_clean' = clean_dataframe(df)
    /\ df' = CallerTable(df, df_clean')
    /\ IF PrintedColumns \subseteq df_clean'.columns
       THEN pc' = "cleaned" /\ raised' = "none"
       ELSE pc' = "raised" /\ raised' = "KeyError"
    /\ UNCHANGED <<key_fields, duplicate_groups, df_merged, stats, normVars>>

\* step 2 of merge_duplicates, for a caller's key_fields
Call_find_duplicate_groups ==
    /\ pc = "cleaned"
    /\ \E fields \in KeyFieldChoices :
          /\ key_fields' = fields
          /\ duplicate_groups' = find_duplicate_groups(df_clean, fields)
    /\ pc' = "grouped"
    /\ UNCHANGED <<df, df_clean, df_merged, stats, raised, normVars>>

\* step 3 of merge_duplicates
Call_merge_duplicate_records ==
    /\ pc = "grouped"
    /\ df_clean' = WithClubColumn(df_clean)
    /\ df_merged' = merge_duplicate_records(WithClubColumn(df_clean), duplicate_groups,
                                            MergeFieldsOf(df_clean))
    /\ df' = CallerTable(df, df_clean')
    /\ pc' = "merged"
    /\ UNCHANGED <<key_fields, duplicate_groups, stats, raised, normVars>>

\* step 4 of merge_duplicates: the stats dict, whose compression_rate
\* divides by len(df_clean), and the return
Call_make_stats ==
    /\ pc = "merged"
    /\ IF Len(df_clean.index) = 0
       THEN pc' = "raised" /\ raised' = "ZeroDivisionError" /\ stats' = stats
       ELSE /\ pc' = "done"
            /\ raised' = "none"
            /\ stats' = MakeStats(df, df_clean, df_merged, duplicate_groups)
    /\ UNCHANGED <<df, df_clean, key_fields, duplicate_groups, df_merged, normVars>>

\* merge_duplicate_records handed a single group of one row by its caller
Call_merge_single_group ==
    /\ pc = "cleaned"
    /\ \E idx \in Range(df_clean.index) :
          /\ duplicate_groups' = <<{idx}>>
          /\ df_merged' = merge_duplicate_records(df_clean, <<{idx}>>, MergeFieldsOf(df_clean))
    /\ pc' = "merged_single"
    /\ UNCHANGED <<df, df_clean, key_fields, stats, raised, normVars>>

Next ==
    \/ Call_clean_dataframe
    \/ Call_find_duplicate_groups
    \/ Call_merge_duplicate_records
    \/ Call_make_stats
    \/ Call_merge_single_group

Spec == Init /\ [][Next]_vars

(* ------- specification SpecGraph: steps 1 and 2 on larger tables ------ *)
\* a table of at most MaxGraphRows rows that chain (a name, the name with
\* a phone, the phone with another name, that name alone), that carry only
\* a QQ number, or that are empty
IsGraphTable(t) ==
    LET GraphRowPool ==
            {KeyRow(n, c, NaN, Blank) : n \in {<<Zhang>>, <<Li>>}, c \in {NaN, <<"1", "-">>}}
                \cup {KeyRow(NaN, NaN, QQCell, Blank), KeyRow(NaN, NaN, NaN, Blank)}
    IN  \E n \in 0..MaxGraphRows :
            \E rows \in [0..(n - 1) -> GraphRowPool] :
                t = [index |-> RangeIndex(n),
                     columns |-> {NameCol, ContactCol, QQCol, ClassCol},
                     row |-> rows]

InitGraph ==
    /\ IsGraphTable(df)
    /\ df_clean = EmptyFrame
    /\ key_fields = <<>>
    /\ duplicate_groups = <<>>
    /\ df_merged = <<>>
    /\ stats = NoStats
    /\ raised = "none"
    /\ pc = "raw"
    /\ value = NaN
    /\ arg_values = <<>>
    /\ arg_field_type = "none"
    /\ op = "none"
    /\ result = None

NextGraph ==
    \/ Call_clean_dataframe
    \/ Call_find_duplicate_groups

SpecGraph == InitGraph /\ [][NextGraph]_vars

(* ---- specification SpecScenario: one pipeline run on a 9-row table --- *)
\* a table of nine rows (row ids 0..8): the rows 1, 2 and 8 carry two names
\* with the same QQ number, a name written with a leading digit, or a name
\* alone; every other row is empty
IsScenarioTable(t) ==
    LET ScenarioRowPool ==
            {KeyRow(n, NaN, QQCell, Blank) : n \in {<<Zhang>>, <<Li>>}}
                \cup {KeyRow(n, NaN, NaN, Blank) :
                          n \in {<<"1", Space, Zhang>>, <<Zhang>>, <<Li>>, NaN}}
        ScenarioPositions == {1, 2, 8}
    IN  \E rows \in [ScenarioPositions -> ScenarioRowPool] :
            t = [index |-> RangeIndex(9),
                 columns |-> {NameCol, ContactCol, QQCol, ClassCol},
                 row |-> [i \in 0..8 |->
                            IF i \in ScenarioPositions THEN rows[i]
                            ELSE KeyRow(NaN, NaN, NaN, Blank)]]

InitScenario ==
    /\ IsScenarioTable(df)
    /\ df_clean = EmptyFrame
    /\ key_fields = <<>>
    /\ duplicate_groups = <<>>
    /\ df_merged = <<>>
    /\ stats = NoStats
    /\ raised = "none"
    /\ pc = "raw"
    /\ value = NaN
    /\ arg_values = <<>>
    /\ arg_field_type = "none"
    /\ op = "none"
    /\ result = None

SpecScenario == InitScenario /\ [][Next]_vars

(* ====================== claims on the pipeline ======================= *)
Ids == Range(df_clean.index)
Groups == Range(duplicate_groups)
Grouped == pc \in {"grouped", "merged", "done"}

\* a value that carries no information: None, NaN or the empty string
Absent(v) == v = NaN \/ v = None \/ v = <<>>

\* the key fields that are columns of the table
UsedFields == Range(key_fields) \cap df_clean.columns

\* two different records with the same non-absent value on a key field
Shares(a, b) ==
    /\ a # b
    /\ \E f \in UsedFields :
          ~Absent(df_clean.row[a][f]) /\ df_clean.row[a][f] = df_clean.row[b][f]

RECURSIVE Reach(_)
Reach(S) ==
    LET T == S \cup {b \in Ids : \E a \in S : Shares(a, b)}
    IN  IF T = S THEN S ELSE Reach(T)

\* C1: if A and B share a non-absent value on a key field and B and C
\* share one on a (possibly different) key field, one returned group holds
\* A, B and C.
C1_TransitiveClosure ==
    Grouped =>
        \A a \in Ids, b \in Ids, c \in Ids :
            (Shares(a, b) /\ Shares(b, c)) => \E g \in Groups : {a, b, c} \subseteq g

C1_Witness ==
    /\ pc = "grouped"
    /\ \E a \in Ids, b \in Ids, c \in Ids :
          /\ Cardinality({a, b, c}) = 3
          /\ Shares(a, b) /\ Shares(a, c) /\ ~Shares(b, c)
          /\ {a, b, c} \in Groups

\* C2: an absent or empty value never links: a record absent on every key
\* field is in no group, and a table in which no two records share a
\* non-absent value has no group at all.
C2_AbsenceNeverLinks ==
    Grouped =>
        /\ \A a \in Ids :
              (\A f \in UsedFields : Absent(df_clean.row[a][f])) => \A g \in Groups : a \notin g
        /\ (\A a \in Ids, b \in Ids : ~Shares(a, b)) => duplicate_groups = <<>>

C2_Witness ==
    /\ pc = "grouped"
    /\ ClassStd \in UsedFields /\ ContactStd \in UsedFields
    /\ \E a \in Ids, b \in Ids :
          /\ a # b
          /\ df_clean.row[a][ClassStd] = <<>> /\ df_clean.row[b][ClassStd] = <<>>
          /\ df_clean.row[a][ContactStd] = None /\ df_clean.row[b][ContactStd] = None
    /\ duplicate_groups = <<>>

RECURSIVE SumSizes(_)
SumSizes(groups) ==
    IF groups = <<>> THEN 0 ELSE Cardinality(Head(groups)) + SumSizes(Tail(groups))

\* the records merge_duplicate_records passed through untouched
UntouchedCount == Len(df_merged) - Len(duplicate_groups)

\* C3: after grouping and merging no record id is in two groups, every
\* record is in a group or passed through untouched, and the group sizes
\* plus the untouched count equal the number of input records.
C3_Partition ==
    pc = "merged" =>
        /\ \A g \in 1..Len(duplicate_groups), h \in 1..Len(duplicate_groups) :
              g # h => duplicate_groups[g] \cap duplicate_groups[h] = {}
        /\ UntouchedCount = Cardinality(Ids \ UNION Groups)
        /\ SumSizes(duplicate_groups) + UntouchedCount = Len(df.index)

C3_Witness ==
    /\ pc = "merged"
    /\ Len(duplicate_groups) >= 1
    /\ UntouchedCount >= 1
    /\ Len(df.index) = 3

\* C4: every returned group is one connected component of the similarity
\* graph with at least two members, and every linked record is in a group.
C4_GroupsAreComponents ==
    Grouped =>
        /\ \A g \in Groups : Cardinality(g) >= 2 /\ \A a \in g : g = Reach({a})
        /\ \A a \in Ids, b \in Ids : Shares(a, b) => \E g \in Groups : a \in g

C4_Witness ==
    /\ pc = "grouped"
    /\ Cardinality(UsedFields) >= 2
    /\ \E g \in Groups : Cardinality(g) = 2 /\ \E a \in Ids \ g : Reach({a}) = {a}

\* the table with its rows in the order p and a fresh RangeIndex
PermuteRows(frame, p) ==
    [index |-> frame.index,
     columns |-> frame.columns,
     row |-> [i \in DOMAIN frame.row |-> frame.row[frame.index[p[i + 1]]]]]

\* the groups as sets of record contents
ContentGroups(frame, groups) ==
    {{frame.row[i] : i \in groups[g]} : g \in 1..Len(groups)}

\* C5: whatever the order of the rows, find_duplicate_groups returns the
\* same set of groups of record contents.
C5_OrderInvariance ==
    pc = "grouped" =>
        \A p \in Permutations(1..Len(df_clean.index)) :
            ContentGroups(PermuteRows(df_clean, p),
                          find_duplicate_groups(PermuteRows(df_clean, p), key_fields))
                = ContentGroups(df_clean, duplicate_groups)

C5_Witness ==
    /\ pc = "grouped"
    /\ Len(df_clean.index) = 3
    /\ duplicate_groups = <<{0, 1, 2}>>
    /\ Shares(0, 2) /\ Shares(1, 2) /\ ~Shares(0, 1)

\* the sole row of the group handed to merge_duplicate_records
SoleRow == df_clean.row[CHOOSE idx \in Ids : duplicate_groups = <<{idx}>>]

\* C6 as stated: merging a group of size 1 returns, for every output field,
\* exactly the value that field has in the sole input record (read here
\* only for the fields whose value is neither missing nor blank).
C6_SingletonMergeIsIdentity ==
    pc = "merged_single" =>
        \A field \in DOMAIN df_merged[1] :
            (notna(SoleRow[field]) /\ strip(SoleRow[field]) # <<>>)
                => df_merged[1][field] = SoleRow[field]

OrEmpty(v) == IF Absent(v) THEN <<>> ELSE v

\* the canonical form of one raw value of a field
CanonicalOf(field, v) ==
    IF field = ContactCol THEN OrEmpty(normalize_contact(v))
    ELSE IF field = QQCol THEN OrEmpty(normalize_qq(v))
    ELSE IF field = NameCol THEN OrEmpty(normalize_name(v))
    ELSE IF field = ClassCol THEN OrEmpty(normalize_class_info(v))
    ELSE IF field = ClubCol THEN merge_club_info(<<v>>)
    ELSE IF isna(v) THEN <<>> ELSE strip(v)

\* C6 as amended: merging a group of size 1 returns, for every output field
\* that is a column, the canonical form of the sole record's value (the
\* empty string when it is absent).
C6_SingletonMergeIsCanonical ==
    pc = "merged_single" =>
        /\ DOMAIN df_merged[1] = Range(MergeFieldsOf(df_clean)) \cap df_clean.columns
        /\ \A field \in DOMAIN df_merged[1] :
              df_merged[1][field] = CanonicalOf(field, SoleRow[field])

C6_Witness ==
    /\ pc = "merged_single"
    /\ ClubCol \in df_clean.columns
    /\ SoleRow[ContactCol] = <<"1", "-">> /\ df_merged[1][ContactCol] = <<"1">>
    /\ SoleRow[ClassCol] = ClassCell /\ df_merged[1][ClassCol] = <<"2", "0", "2", "2", Ji>>
    /\ SoleRow[CollegeCol] = <<Space, Han, Space>> /\ df_merged[1][CollegeCol] = <<Han>>
    /\ SoleRow[NameCol] = NaN /\ df_merged[1][NameCol] = <<>>

\* the fields of the records merge_duplicate_records builds
OutputFields == Range(MergeFieldsOf(df_clean)) \cap df_clean.columns

Merged == pc \in {"merged", "done"}

\* C13: for every duplicate group and every configured output field that
\* is a column, the merged value is a string, never null/NaN, and it is
\* the empty string when no candidate remains once the empty and absent
\* values are dropped.
C13_MergedFieldIsString ==
    (Merged \/ pc = "merged_single") =>
        \A g \in 1..Len(duplicate_groups) :
            /\ DOMAIN df_merged[g] = OutputFields
            /\ \A field \in OutputFields :
                  /\ notna(df_merged[g][field])
                  /\ (\A i \in duplicate_groups[g] :
                          CanonicalOf(field, df_clean.row[i][field]) = <<>>)
                        => df_merged[g][field] = <<>>

C13_Witness ==
    /\ pc = "merged"
    /\ \E g \in 1..Len(duplicate_groups) :
          /\ Cardinality(duplicate_groups[g]) >= 2
          /\ df_merged[g][QQCol] = <<>>
          /\ df_merged[g][ClassCol] = <<>>
          /\ df_merged[g][NameCol] # <<>>
          /\ \A i \in duplicate_groups[g] : df_clean.row[i][QQCol] = NaN

\* the ids of the records in no group, in row order
UntouchedIds == SelectSeq(df_clean.index, LAMBDA i : i \notin UNION Groups)

\* the value the raw record holds for an output field
RawFieldValue(idx, field) ==
    IF field = ClubCol /\ RawClubCol \in df.columns
    THEN df.row[idx][RawClubCol]
    ELSE df.row[idx][field]

\* C14: every record in no duplicate group is in the merged table exactly
\* once, after the groups' records, with every configured output field
\* copied verbatim from the raw record and no other field.
C14_UntouchedCopiedVerbatim ==
    Merged =>
        /\ Len(df_merged) = Len(duplicate_groups) + Len(UntouchedIds)
        /\ \A k \in 1..Len(UntouchedIds) :
              LET rec == df_merged[Len(duplicate_groups) + k]
              IN  /\ DOMAIN rec = OutputFields
                  /\ \A field \in OutputFields :
                        rec[field] = RawFieldValue(UntouchedIds[k], field)

C14_Witness ==
    /\ pc = "merged"
    /\ Len(duplicate_groups) = 1
    /\ Len(UntouchedIds) = 1
    /\ df_merged[2][ContactCol] = <<"1", "-">>
    /\ df_merged[2][NameCol] = NaN

\* C15: the statistics of a run are consistent: merged_count is the
\* untouched count plus the number of groups, cleaned_count and
\* original_count are both the untouched count plus total_duplicates, and
\* reduced_count is total_duplicates minus the number of groups.
C15_StatisticsConsistent ==
    pc = "done" =>
        LET untouched == Cardinality(Ids \ UNION Groups)
        IN  /\ stats.duplicate_groups = Len(duplicate_groups)
            /\ stats.total_duplicates = SumSizes(duplicate_groups)
            /\ stats.merged_count = untouched + stats.duplicate_groups
            /\ stats.cleaned_count = stats.original_count
            /\ stats.original_count = untouched + stats.total_duplicates
            /\ stats.reduced_count = stats.total_duplicates - stats.duplicate_groups

C15_Witness ==
    /\ pc = "done"
    /\ stats.original_count = 3
    /\ stats.duplicate_groups = 1
    /\ stats.total_duplicates = 2
    /\ stats.merged_count = 2
    /\ stats.reduced_count = 1

\* the raw columns whose "_biaozhun" columns the run relies on
RawKeyColumns == {NameCol, QQCol, ContactCol}

\* C16: a run on a table of zero records, or on a table in which no
\* duplicate group is found, never raises.
C16_EmptyInputCompletes ==
    (RawKeyColumns \subseteq df.columns /\ (Len(df.index) = 0 \/ duplicate_groups = <<>>))
        => raised = "none"

\* C17: a run on a table that lacks one of the raw columns name, QQ or
\* contact never raises.
C17_MissingColumnCompletes ==
    ~(RawKeyColumns \subseteq df.columns) => raised = "none"

StdColumns == {NameStd, QQStd, ContactStd, ClassStd}

\* the table the pipeline works on holds every raw column with the raw
\* values, and after clean_dataframe alone the only other columns are the
\* derived "_biaozhun" columns
RawColumnsKept ==
    pc \in {"cleaned", "grouped", "merged", "done", "raised", "merged_single"} =>
        /\ df.columns \subseteq df_clean.columns
        /\ df_clean.index = df.index
        /\ \A i \in Range(df.index), c \in df.columns : df_clean.row[i][c] = df.row[i][c]
        /\ pc = "cleaned" => (df_clean.columns \ df.columns) \subseteq StdColumns

\* C19: no step of the pipeline changes the caller's table: it keeps its
\* columns and its values, and the derived columns go to a copy that keeps
\* every raw column as it was.
C19_RawTableReadOnly == [][df' = df /\ RawColumnsKept']_vars

C19_Witness ==
    /\ pc = "done"
    /\ df.columns = {NameCol, ContactCol, QQCol, RawClubCol}
    /\ {NameStd, ContactStd, QQStd, ClubCol} \subseteq df_clean.columns
    /\ Len(df.index) >= 2

\* the adjacency relation find_duplicate_groups built for the table
Connections == Traversal(df_clean, key_fields).connections

\* C22: the adjacency relation is symmetric and irreflexive and holds the
\* pair (a, b) exactly when a and b are different records with the same
\* non-absent normalized value on a listed key field that is a column; a
\* listed key field that is no column adds no edge and raises no error.
C22_AdjacencyIsSharing ==
    pc = "grouped" =>
        LET conn == Connections
        IN  /\ raised = "none"
            /\ DOMAIN conn \subseteq Ids
            /\ \A a \in DOMAIN conn : conn[a] \subseteq Ids \ {a}
            /\ \A a \in Ids, b \in Ids :
                  /\ (b \in Neighbors(conn, a)) <=> Shares(a, b)
                  /\ (b \in Neighbors(conn, a)) <=> (a \in Neighbors(conn, b))

C22_Witness ==
    /\ pc = "grouped"
    /\ "college_std" \in Range(key_fields) \ df_clean.columns
    /\ \E a \in Ids, b \in Ids, c \in Ids :
          /\ Cardinality({a, b, c}) = 3
          /\ Neighbors(Connections, a) = {b, c}
          /\ Neighbors(Connections, b) = {a, c}
    /\ \E d \in Ids : d \notin DOMAIN Connections

\* the locals of find_duplicate_groups for the table and the key fields
Walk == Traversal(df_clean, key_fields)

\* the position in the table of the earliest row of a group
FirstRow(g) ==
    CHOOSE k \in 1..Len(df_clean.index) :
        /\ df_clean.index[k] \in g
        /\ \A j \in 1..(k - 1) : df_clean.index[j] \notin g

RowsInTableOrder(g) == SelectSeq(df_clean.index, LAMBDA idx : idx \in g)

\* C23 as stated: every reducer is handed the values of a group in the row
\* order of the table, so each merged record is the one computed from the
\* group's rows taken in table order.
C23_ReducersSeeRowOrder ==
    pc = "merged" =>
        \A k \in 1..Len(duplicate_groups) :
            LET rows == RowsInTableOrder(duplicate_groups[k])
            IN  df_merged[k] =
                    [field \in Range(MergeFieldsOf(df_clean)) \cap df_clean.columns |->
                        MergeField(field, [j \in 1..Len(rows) |-> df_clean.row[rows[j]][field]])]

\* C29 as stated: cleaning the merged table and looking for duplicates on
\* the name, QQ and phone again finds no group.
C29_MergedTableHasNoDuplicates ==
    (pc = "merged" /\ key_fields = DefaultKeyFields) =>
        find_duplicate_groups(clean_dataframe(MergedFrame(df_merged)), DefaultKeyFields) = <<>>

(* ===================== claims on the normalizers ===================== *)
CountOcc(s, pat) == Cardinality({i \in 1..Len(s) : MatchAt(s, i, pat)})

IsSeparator(c) == c \in {"-", Space}

\* digits and separators, at least one digit, followed by ".0"
HasDecimalArtifact(v) ==
    /\ Len(v) >= 3
    /\ v[Len(v) - 1] = "." /\ v[Len(v)] = "0"
    /\ \A i \in 1..(Len(v) - 2) : IsDigit(v[i]) \/ IsSeparator(v[i])
    /\ \E i \in 1..(Len(v) - 2) : IsDigit(v[i])

\* C7: normalize_contact of digits and separators followed by ".0" is
\* exactly the digits that precede the ".0", in order ("138-1234-5678.0"
\* gives "13812345678").
C7_ArtifactDroppedBeforeDigits ==
    (op = "normalize_contact" /\ HasDecimalArtifact(value))
        => result = DigitsOnly(SubSeq(value, 1, Len(value) - 2))

\* C8: the token <wu> is absent for normalize_contact, normalize_qq and
\* normalize_class_info and is returned as itself by normalize_name; a raw
\* name that keeps at least one ideograph or letter is absent exactly when
\* it is "nan" or "none" in any case.
C8_EmptyTokenAsymmetry ==
    /\ (value = <<Wu>> /\ op \in {"normalize_contact", "normalize_qq", "normalize_class_info"})
           => result = None
    /\ (value = <<Wu>> /\ op = "normalize_name") => result = <<Wu>>
    /\ (op = "normalize_name" /\ notna(value) /\ \E i \in 1..Len(value) : value[i] \in CJK \cup Letters)
           => (result = None <=> lower(value) \in {NanToken, NoneToken})

C8_Witness ==
    op = "normalize_name" /\ value = <<Wu>> /\ result = <<Wu>>

\* a two-digit shorthand 22..25 followed by the marker, at the start of the
\* label or after a character that is not a digit
ShorthandLeftAt(s, i) ==
    /\ i + 2 <= Len(s)
    /\ s[i] = "2" /\ s[i + 1] \in {"2", "3", "4", "5"} /\ s[i + 2] = Ji
    /\ (i = 1 \/ ~IsDigit(s[i - 1]))

\* C9: normalize_class_info expands every two-digit year shorthand followed
\* by the marker, wherever in the label it occurs: no shorthand is left in
\* the result.
C9_ShorthandExpandedEverywhere ==
    (op = "normalize_class_info" /\ notna(result))
        => \A i \in 1..Len(result) : ~ShorthandLeftAt(result, i)

Ordinals == {<<Yi, "1">>, <<Er, "2">>, <<San, "3">>}

\* C10 as stated: normalize_class_info rewrites every spelled-out ordinal
\* class number whatever precedes it, so none is left in the result.
C10_OrdinalRewrittenAnyPrefix ==
    (op = "normalize_class_info" /\ notna(result))
        => \A o \in Ordinals : CountOcc(result, <<o[1], Ban>>) = 0

\* C10 as amended: the ordinal is rewritten exactly where <ben><ke>
\* immediately precedes it; every other spelled-out ordinal is left as
\* written.
C10_OrdinalRewrittenAfterBenKe ==
    (op = "normalize_class_info" /\ notna(result))
        => \A o \in Ordinals :
              LET raw == strip(value)
                  spelled == <<Ben, Ke, o[1], Ban>>
                  digit == <<Ben, Ke, o[2], Ban>>
              IN  /\ CountOcc(result, spelled) = 0
                  /\ CountOcc(result, digit) = CountOcc(raw, digit) + CountOcc(raw, spelled)
                  /\ CountOcc(result, <<o[1], Ban>>)
                         = CountOcc(raw, <<o[1], Ban>>) - CountOcc(raw, spelled)

C10_Witness ==
    /\ op = "normalize_class_info"
    /\ value = Scenario_ordinal_two
    /\ result = <<Han, Ben, Ke, "2", Ban, Han, San, Ban>>

Normalizers == {"normalize_contact", "normalize_qq", "normalize_name", "normalize_class_info"}

IsBlank(v) == notna(v) /\ v # <<>> /\ strip(v) = <<>>

\* C21: no normalizer returns the empty string, a blank (whitespace-only)
\* raw value is absent, and normalize_class_info is never absent for an
\* input that is neither blank nor an empty token.
C21_AbsentOrNonEmpty ==
    op \in Normalizers =>
        /\ result # <<>>
        /\ IsBlank(value) => result = None
        /\ (/\ op = "normalize_class_info"
            /\ notna(value) /\ strip(value) # <<>>
            /\ lower(value) \notin BroadEmptyTokens) => result # None

\* C24: the result of normalize_class_info holds no run of two or more
\* markers, and normalizing it again changes nothing (read here for the
\* labels whose result is not the empty string).
C24_CohortIdempotentNoMarkerRun ==
    (op = "normalize_class_info" /\ notna(result) /\ result # <<>>) =>
        /\ CountOcc(result, <<Ji, Ji>>) = 0
        /\ normalize_class_info(result) = result

\* C25: normalize_name returns absent or a non-empty string of ideographs,
\* ASCII letters and single spaces only, with no run of two or more
\* whitespace characters and no leading or trailing whitespace.
C25_NameCanonicalForm ==
    (op = "normalize_name" /\ notna(result)) =>
        /\ result # <<>>
        /\ \A i \in 1..Len(result) : result[i] \in CJK \cup Letters \cup {Space}
        /\ \A i \in 1..(Len(result) - 1) : ~(IsSpace(result[i]) /\ IsSpace(result[i + 1]))
        /\ ~IsSpace(result[1]) /\ ~IsSpace(result[Len(result)])

\* s with every run of markers written as one marker
RECURSIVE OneMarker(_, _)
OneMarker(s, i) ==
    IF i > Len(s) THEN <<>>
    ELSE IF s[i] = Ji /\ i > 1 /\ s[i - 1] = Ji THEN OneMarker(s, i + 1)
    ELSE <<s[i]>> \o OneMarker(s, i + 1)

\* the label with its first k characters replaced by the year and one marker
YearThenRest(s, k) == strip(OneMarker(SubSeq(s, 1, 4) \o <<Ji>> \o SubSeq(s, k + 1, Len(s)), 1))

\* C28: fix_year_format rewrites a leading year 2022..2025 followed by
\* <nian> to the year followed by the marker, rewrites a leading year
\* separated from the marker by whitespace to year and marker, and its
\* result on a label starting with 22..25 and the marker, or with 2022..2025
\* and more text, passes validate_year_format with no <nian> left at the
\* year and no doubled marker.
C28_YearRulesApply ==
    (op = "fix_year_format" /\ notna(value)) =>
        LET s == strip(value)
            n == SpacesFrom(s, 5)
        IN  /\ (StartsWithYear(s) /\ Len(s) >= 5 /\ s[5] = Nian)
                   => result = YearThenRest(s, 5)
            /\ (StartsWithYear(s) /\ n >= 1 /\ Len(s) >= 5 + n /\ s[5 + n] = Ji)
                   => result = YearThenRest(s, 5 + n)
            /\ ((StartsWithYear(s) /\ Len(s) >= 5)
                    \/ \E d \in YearDigits : MatchAt(s, 1, <<"2", d, Ji>>))
                   => /\ validate_year_format(result)
                      /\ ~MatchAt(result, 5, <<Nian>>) /\ ~MatchAt(result, 6, <<Nian>>)
                      /\ CountOcc(result, <<Ji, Ji>>) = 0

(* ====================== claims on the reducers ======================= *)
\* the raw values that carry club names: neither missing nor ''
ClubSources == {i \in 1..Len(arg_values) : notna(arg_values[i]) /\ arg_values[i] # <<>>}

\* the trimmed pieces of the i-th raw value, a piece per comma
PiecesOf(i) ==
    LET parts == split(arg_values[i], ",")
    IN  [j \in 1..Len(parts) |-> strip(parts[j])]

\* the places <<i, j>> where the token t occurs
PlacesOf(t) ==
    UNION {{<<i, j>> : j \in {k \in 1..Len(PiecesOf(i)) : PiecesOf(i)[k] = t}} :
              i \in ClubSources}

ClubTokensIn == {t \in UNION {Range(PiecesOf(i)) : i \in ClubSources} : t # <<>>}

Before(p, q) == p[1] < q[1] \/ (p[1] = q[1] /\ p[2] < q[2])

\* t first occurs before u first occurs
FirstSeenBefore(t, u) ==
    \E p \in PlacesOf(t) : \A q \in PlacesOf(u) : Before(p, q)

\* the tokens of a merged club value: the text between the ", " separators
TokensOfResult ==
    IF result = <<>> THEN <<>> ELSE split(replace(result, <<",", Space>>, <<",">>), ",")

\* C11: merge_club_info returns the trimmed comma-separated tokens of the
\* non-empty raw values joined with ", ": every distinct non-empty token
\* exactly once, in the order of its first occurrence across the values.
C11_ClubTokensOnceInFirstSeenOrder ==
    op = "merge_club_info" =>
        LET out == TokensOfResult
        IN  /\ result = join(<<",", Space>>, out)
            /\ Range(out) = ClubTokensIn
            /\ \A k \in 1..Len(out), l \in 1..Len(out) :
                  k < l => (out[k] # out[l] /\ FirstSeenBefore(out[k], out[l]))

C11_Witness ==
    /\ op = "merge_club_info"
    /\ arg_values = << <<Li, ",", Space, Han>>, <<Han>> >>
    /\ result = <<Li, ",", Space, Han>>

\* the phone candidates: every value normalized, the absent ones dropped,
\* each candidate kept where it first occurs
PhoneCandidates ==
    Unique(SelectSeq([i \in 1..Len(arg_values) |-> normalize_contact(arg_values[i])],
                     LAMBDA v : ~Absent(v)),
           <<>>)

ElevenDigits(v) == Len(v) = 11 /\ isdigit(v)

\* C12: smart_merge_values(values, 'contact') returns, when more than one
\* candidate remains, the first candidate that is exactly 11 digits long,
\* and the first remaining candidate when there is no such candidate or
\* only one candidate.
C12_PhonePrefersFirstElevenDigits ==
    (op = "smart_merge_values" /\ arg_field_type = "contact" /\ PhoneCandidates # <<>>)
        => LET c == PhoneCandidates
           IN  IF Len(c) > 1 /\ \E i \in 1..Len(c) : ElevenDigits(c[i])
               THEN \E i \in 1..Len(c) :
                        /\ ElevenDigits(c[i])
                        /\ \A j \in 1..(i - 1) : ~ElevenDigits(c[j])
                        /\ result = c[i]
               ELSE result = c[1]

C12_Witness ==
    /\ op = "smart_merge_values" /\ arg_field_type = "contact"
    /\ arg_values = << <<"1", "-">>, Phone_b, Phone_a >>
    /\ result = Phone_b

\* the raw values that is_empty_value does not hold for
NonEmptyValues == SelectSeq(arg_values, LAMBDA v : ~is_empty_value(v))

\* C20: when merging a general field or the club field, a raw value is
\* dropped exactly when is_empty_value holds for it: the merged general
\* value is the first trimmed value that is not empty ('' when there is
\* none), and no token of a merged club value is an empty value.
C20_EmptyPredicateDecidesDrops ==
    /\ (op = "smart_merge_values" /\ arg_field_type = "general")
           => result = (IF NonEmptyValues = <<>> THEN <<>> ELSE strip(NonEmptyValues[1]))
    /\ op = "merge_club_info"
           => \A k \in 1..Len(TokensOfResult) : ~is_empty_value(TokensOfResult[k])

\* the cohort candidates: every value normalized, the absent ones dropped,
\* each candidate kept where it first occurs
ClassCandidates ==
    Unique(SelectSeq([i \in 1..Len(arg_values) |-> normalize_class_info(arg_values[i])],
                     LAMBDA v : ~Absent(v)),
           <<>>)

\* C27: smart_merge_values(values, 'class') returns a candidate of maximal
\* character count and, among the candidates of that length, the one seen
\* first.
C27_CohortPrefersFirstLongest ==
    (op = "smart_merge_values" /\ arg_field_type = "class" /\ ClassCandidates # <<>>)
        => LET c == ClassCandidates
           IN  \E i \in 1..Len(c) :
                   /\ result = c[i]
                   /\ \A j \in 1..Len(c) : Len(c[j]) <= Len(c[i])
                   /\ \A j \in 1..(i - 1) : Len(c[j]) < Len(c[i])

C27_Witness ==
    /\ op = "smart_merge_values" /\ arg_field_type = "class"
    /\ arg_values = << <<Han, Ban>>, <<"2", "2", Ji>>, <<Han, Han, Han, Han, Ban>> >>
    /\ result = <<"2", "0", "2", "2", Ji>>

====
